---------------------------- MODULE Spec2Model ----------------------------
(***************************************************************************)
(* Walk-forward portfolio optimisation and backtesting                     *)
(* (rolling_portfolio_optimizer.py, backtester.py, portfolio_constructor.py*)
(* optimizer_mpt.py).                                                      *)
(*                                                                         *)
(* Dates are calendar day numbers.  Floats are fixed-point integers in     *)
(* units of 1/Scale, every division rounding down; NaN is the value NaN.   *)
(* A price panel is a function  date -> (symbol -> price).                 *)
(***************************************************************************)
EXTENDS Integers, Sequences, FiniteSets, TLC

(***************************************************************************)
(* Bounds of the model.                                                    *)
(***************************************************************************)
\* last calendar day a panel may contain (days are 0..MaxDay)
MaxDay == 4
\* the longest frame given row by row
MaxRows == 3
\* the largest universe a confidence vector is given for
MaxAssets == 3

\* fixed-point unit: 1.0 is Scale
Scale == 10 * 10 * 10
\* the missing value of pandas / numpy
NaN == 0 - 999999

Days == 0..MaxDay

Max(a, b) == IF a >= b THEN a ELSE b
Min(a, b) == IF a <= b THEN a ELSE b
Abs(a) == IF a >= 0 THEN a ELSE 0 - a

RECURSIVE SumOver(_, _)
\* sum of f over the finite set S of its domain
SumOver(f, S) ==
    IF S = {} THEN 0
    ELSE LET x == CHOOSE y \in S : TRUE IN f[x] + SumOver(f, S \ {x})

RECURSIVE SortedSeq(_)
\* the ascending sequence of a finite set of integers
SortedSeq(S) ==
    IF S = {} THEN << >>
    ELSE LET m == CHOOSE y \in S : \A z \in S : y <= z
         IN <<m>> \o SortedSeq(S \ {m})

RECURSIVE ISqrtIn(_, _, _)
\* the largest r in lo..hi with r * r <= n, by bisection
ISqrtIn(n, lo, hi) ==
    IF lo >= hi THEN lo
    ELSE LET mid == (lo + hi + 1) \div 2
         IN IF mid * mid <= n THEN ISqrtIn(n, mid, hi) ELSE ISqrtIn(n, lo, mid - 1)
\* floor of the square root (of a number below 2^30)
ISqrt(n) == ISqrtIn(n, 0, 32 * Scale)

\* the i-th price shape at day t: a family of positive price series
\* (0: flat, others: cycles of different amplitude)
PriceOf(s, t) == 1 + ((s * t) % 4)
Shapes == 0..2

(***************************************************************************)
(* State.                                                                  *)
(***************************************************************************)
VARIABLES
    price_df,          \* the price panel passed to rolling_optimize_weights
    symbols,           \* list(price_df.columns)
    cfg,               \* rebalance_frequency, strategy, min_train_days, lookback_days, max_weight
    pc,                \* position in rolling_optimize_weights
    rebal_dates,       \* the surviving candidate dates
    i,                 \* enumerate(rebal_dates, 1) counter
    weights_schedule,  \* date -> symbol -> weight (NaN until assigned)
    rebal_history,     \* the audit log
    attrs,             \* weights_schedule.attrs
    visited,           \* the candidates the loop has handled, with the outcome of each
    solver_log,        \* what the optimisation returned at each candidate
    first_run,         \* the panel and the result of an earlier call, if any
    bt_args,           \* run_backtest: cash_rate_daily, trading_cost_bps
    bt_locals,         \* run_backtest: ret, daily_cost, port_ret_gross, port_ret_net
    result,            \* the BacktestResult returned
    first_result       \* the arguments and the result of an earlier run_backtest, if any

vars == <<price_df, symbols, cfg, pc, rebal_dates, i, weights_schedule,
          rebal_history, attrs, visited, solver_log, first_run,
          bt_args, bt_locals, result, first_result>>

\* what run_backtest reads and writes beyond the panel and the schedule
btvars == <<bt_args, bt_locals, result, first_result>>


(***************************************************************************)
(* Pure functions of the source.                                           *)
(***************************************************************************)
\* price_df.sort_index().index
IndexOf(df) == SortedSeq(DOMAIN df)

\* get_rebalancing_dates: Series.resample(freq).last().index.  A frequency is
\* a period length in calendar days (1 is 'D'); resample makes one bin for
\* every period from the first date's to the last date's, empty bins too,
\* and labels each bin by the period's last calendar day.
get_rebalancing_dates(index, frequency) ==
    LET p0 == index[1] \div frequency
        p1 == index[Len(index)] \div frequency
    IN [k \in 1..(p1 - p0 + 1) |-> (p0 + k) * frequency - 1]

\* [d for d in rebal_dates if (d - price_df.index[0]).days >= min_train_days]
SufficientHistory(dates, index, min_train_days) ==
    SelectSeq(dates, LAMBDA d : d - index[1] >= min_train_days)

\* index.get_loc(d), or get_indexer([d], method='ffill') when d is no member:
\* the 1-based position of the last date <= d, 0 when there is none
TrainEndIdx(index, d) == Cardinality({k \in 1..Len(index) : index[k] <= d})

\* the slice is not cut at the candidate: the whole panel trains
TrainIndex_WholePanel(index, d, lookback_days) == index

\* the start of the window is not clamped at 0: a negative start counts
\* from the end of the panel, as iloc does
TrainIndex_StartNotClamped(index, d, lookback_days) ==
    IF lookback_days # 0
    THEN LET e == TrainEndIdx(index, d)
             start == e - lookback_days + 1
         IN SubSeq(index, IF start < 1 THEN Max(1, Len(index) + start) ELSE start, e)
    ELSE SelectSeq(index, LAMBDA t : t <= d)

\* the dates of train_data at candidate d
TrainIndex(index, d, lookback_days) ==
    IF lookback_days # 0
    THEN LET e == TrainEndIdx(index, d)
         IN SubSeq(index, Max(1, e - lookback_days + 1), e)
    ELSE SelectSeq(index, LAMBDA t : t <= d)

\* the rebalance is skipped: no valid date, or insufficient data
SkipCond(index, d, c) ==
    \/ (c.lookback_days # 0 /\ TrainEndIdx(index, d) = 0)
    \/ Len(TrainIndex(index, d, c.lookback_days)) < c.min_train_days \div 2

\* equal_weight_weights
equal_weight_weights(tickers) ==
    LET n == Cardinality(tickers)
    IN [a \in tickers |-> IF n > 0 THEN Scale \div n ELSE 0]

\* prices.pct_change().dropna(how="all") over the rows idx of df: row k of the
\* result is the return from idx[k] to idx[k+1]
pct_change(df, idx) ==
    [k \in 1..(Len(idx) - 1) |->
        [a \in DOMAIN df[idx[1]] |->
            ((df[idx[k + 1]][a] - df[idx[k]][a]) * Scale) \div df[idx[k]][a]]]

\* Series.std(ddof=0) of column a of the rows of r; NaN for no rows
StdOf(r, a) ==
    LET n == Len(r)
        col == [k \in 1..n |-> r[k][a]]
        mean == SumOver(col, 1..n) \div n
        dev == [k \in 1..n |-> (col[k] - mean) * (col[k] - mean)]
    IN IF n = 0 THEN NaN ELSE ISqrt(SumOver(dev, 1..n) \div n)

\* ret.iloc[-lookback_days:]  (iloc[-0:] is every row)
LastRows(r, lookback_days) ==
    IF lookback_days = 0 \/ lookback_days >= Len(r) THEN r
    ELSE SubSeq(r, Len(r) - lookback_days + 1, Len(r))

\* the inverse volatilities are returned without dividing by their sum
inverse_vol_weights_Unnormalised(df, idx, lookback_days) ==
    LET cols == DOMAIN df[CHOOSE t \in DOMAIN df : TRUE]
        recent == LastRows(pct_change(df, idx), lookback_days)
        vol == [a \in cols |-> StdOf(recent, a)]
    IN [a \in cols |-> IF vol[a] = NaN \/ vol[a] = 0 THEN 0 ELSE (Scale * Scale) \div vol[a]]

\* inverse_vol_weights (min_weight = 0)
inverse_vol_weights(df, idx, lookback_days) ==
    LET cols == DOMAIN df[CHOOSE t \in DOMAIN df : TRUE]
        recent == LastRows(pct_change(df, idx), lookback_days)
        vol == [a \in cols |-> StdOf(recent, a)]
        inv_vol == [a \in cols |->
                      IF vol[a] = NaN \/ vol[a] = 0 THEN 0 ELSE (Scale * Scale) \div vol[a]]
        total == SumOver(inv_vol, cols)
    IN IF total = 0 THEN equal_weight_weights(cols)
       ELSE [a \in cols |-> (inv_vol[a] * Scale) \div total]

\* tangency_unconstrained, given raw = pinv(Sigma) @ mu
tangency_unconstrained(raw) ==
    LET cols == DOMAIN raw
        clipped == [a \in cols |-> Max(raw[a], 0)]
        w == IF SumOver(clipped, cols) = 0 THEN [a \in cols |-> Scale] ELSE clipped
    IN [a \in cols |-> (w[a] * Scale) \div SumOver(w, cols)]

\* what scipy and numpy answer inside max_sharpe_long_only: the solver
\* converges (res.success) to a point x of the feasible set, sum(x) = 1 and
\* 0 <= x <= max_weight; or it does not converge (or throws) and the fallback
\* computes raw = pinv(Sigma) @ mu; or pinv itself raises LinAlgError
SolverGrid == {0, Scale \div 2, Scale}
RawGrid == {0 - Scale, Scale}
SolverOutcomes(cols, max_weight) ==
    [kind : {"converged"},
     x : {x \in [cols -> SolverGrid] :
            SumOver(x, cols) = Scale /\ \A a \in cols : x[a] <= max_weight}]
        \cup [kind : {"fallback"}, x : [cols -> RawGrid]]
        \cup [kind : {"raise"}, x : {[a \in cols |-> 0]}]
NoSolver(cols) == [kind |-> "none", x |-> [a \in cols |-> 0]]

\* max_sharpe_long_only: [ok, w]; w has NaN entries when the clipped
\* solution sums to 0 (0/0)
max_sharpe_long_only(cols, max_weight, out) ==
    IF out.kind = "converged"
    THEN LET w == [a \in cols |-> Min(Max(out.x[a], 0), max_weight)]
             s == SumOver(w, cols)
         IN [ok |-> TRUE,
             w |-> [a \in cols |-> IF s = 0 THEN NaN ELSE (w[a] * Scale) \div s]]
    ELSE IF out.kind = "fallback"
    THEN [ok |-> TRUE, w |-> tangency_unconstrained(out.x)]
    ELSE [ok |-> FALSE, w |-> [a \in cols |-> NaN]]

\* the strategy dispatch of rolling_optimize_weights (the body of its try):
\* [ok, w], ok = FALSE when it raises
OptimizeAt(df, idx, syms, c, out) ==
    IF c.strategy = "equal" THEN [ok |-> TRUE, w |-> equal_weight_weights(syms)]
    ELSE IF c.strategy = "invvol"
    THEN [ok |-> TRUE, w |-> inverse_vol_weights(df, idx, Min(63, Len(idx) \div 4))]
    ELSE IF c.strategy = "mpt"
    THEN IF Cardinality(syms) < 2
         THEN [ok |-> TRUE, w |-> inverse_vol_weights(df, idx, 63)]
         ELSE LET r == max_sharpe_long_only(syms, c.max_weight, out)
                  w0 == [a \in syms |-> IF r.w[a] = NaN THEN 0 ELSE r.w[a]]
                  s == SumOver(w0, syms)
              IN IF ~r.ok THEN r
                 ELSE [ok |-> TRUE,
                       w |-> IF s > 0 THEN [a \in syms |-> (w0[a] * Scale) \div s]
                             ELSE [a \in syms |-> Scale \div Cardinality(syms)]]
    ELSE [ok |-> FALSE, w |-> [a \in syms |-> NaN]]

\* the mask has no lower end: earlier dates are filled from this rebalance
ApplyMask_NoLowerBound(index, dates, k) ==
    LET all == {index[j] : j \in 1..Len(index)}
    IN IF k < Len(dates) THEN {t \in all : t < dates[k + 1]} ELSE all

\* the mask of the dates a rebalance at position k of dates assigns:
\* [d_k, d_(k+1)), or everything from d_k on for the last candidate
ApplyMask(index, dates, k) ==
    LET all == {index[j] : j \in 1..Len(index)}
    IN IF k < Len(dates)
       THEN {t \in all : t >= dates[k] /\ t < dates[k + 1]}
       ELSE {t \in all : t >= dates[k]}

(***************************************************************************)
(* Inputs.                                                                 *)
(***************************************************************************)
\* rebalance_frequency, as the period's length in calendar days
Frequencies == {2, 3}
\* 'momentum' stands for any strategy name the dispatch does not know
Strategies == {"equal", "invvol", "mpt", "momentum"}
MinTrainChoices == {0, 2, 4}
\* lookback_days; 0 stands for None too (both are falsy)
LookbackChoices == {0, 1, 3}
\* max_weight: the default 0.20, and 0.60
MaxWeightChoices == {Scale \div 5, (3 * Scale) \div 5}

\* the panels have one asset column, or two
SymbolSets == {{"A"}, {"A", "B"}}
Calendars == (SUBSET Days) \ {{}}

\* the panels: every trading calendar, every asset on one of the price shapes
PanelOf(cal, syms, shape) == [t \in cal |-> [a \in syms |-> PriceOf(shape[a], t)]]
Panels(syms) == {PanelOf(cal, syms, shape) : cal \in Calendars, shape \in [syms -> Shapes]}

Configs ==
    [rebalance_frequency : Frequencies, strategy : Strategies,
     min_train_days : MinTrainChoices, lookback_days : LookbackChoices,
     max_weight : MaxWeightChoices]

NoRun == [present |-> FALSE]

(***************************************************************************)
(* rolling_optimize_weights.                                               *)
(***************************************************************************)
\* The model's solver answer is not computed from the prices, so for the
\* solver path of 'mpt' the flat panel of each calendar stands for all.
InputPanels(syms, c) ==
    IF c.strategy = "mpt" /\ Cardinality(syms) >= 2
    THEN {PanelOf(cal, syms, [a \in syms |-> 0]) : cal \in Calendars}
    ELSE Panels(syms)

\* the arguments of a call of rolling_optimize_weights with a configuration
\* of configs, nothing computed yet
InitRollingWith(configs) ==
    /\ symbols \in SymbolSets
    /\ cfg \in configs
    /\ price_df \in InputPanels(symbols, cfg)
    /\ pc = "start"
    /\ rebal_dates = << >>
    /\ i = 0
    /\ weights_schedule = << >>
    /\ rebal_history = << >>
    /\ attrs = << >>
    /\ visited = << >>
    /\ solver_log = << >>
    /\ first_run = NoRun

InitRolling == InitRollingWith(Configs)

Init ==
    /\ InitRolling
    /\ bt_args = << >>
    /\ bt_locals = << >>
    /\ result = << >>
    /\ first_result = NoRun

Index == IndexOf(price_df)

\* the audit list outlives the call (a shared default list): it is not emptied
Start_KeepsHistory ==
    /\ pc = "start"
    /\ LET kept == SufficientHistory(
                       get_rebalancing_dates(Index, cfg.rebalance_frequency),
                       Index, cfg.min_train_days)
       IN /\ rebal_dates' = kept
          /\ pc' = IF Len(kept) = 0 THEN "raised" ELSE "loop"
    /\ i' = 1
    /\ weights_schedule' = [t \in DOMAIN price_df |-> [a \in symbols |-> NaN]]
    /\ visited' = << >>
    /\ solver_log' = << >>
    /\ UNCHANGED <<price_df, symbols, cfg, attrs, first_run, rebal_history>>
    /\ UNCHANGED btvars

\* lines 88-114: the candidates and their filter; ValueError when none survives
Start ==
    /\ pc = "start"
    /\ LET kept == SufficientHistory(
                       get_rebalancing_dates(Index, cfg.rebalance_frequency),
                       Index, cfg.min_train_days)
       IN /\ rebal_dates' = kept
          /\ pc' = IF Len(kept) = 0 THEN "raised" ELSE "loop"
    /\ i' = 1
    /\ weights_schedule' = [t \in DOMAIN price_df |-> [a \in symbols |-> NaN]]
    /\ rebal_history' = << >>
    /\ visited' = << >>
    /\ solver_log' = << >>
    /\ UNCHANGED <<price_df, symbols, cfg, attrs, first_run>>
    /\ UNCHANGED btvars

InLoop == pc = "loop" /\ i <= Len(rebal_dates)
Train == TrainIndex(Index, rebal_dates[i], cfg.lookback_days)

\* the training slice at this candidate is the one an earlier call had there
SameTrainAsFirstRun ==
    /\ first_run.present
    /\ i <= Len(first_run.solver_log)
    /\ Train = TrainIndex(Index, rebal_dates[i], first_run.cfg.lookback_days)
    /\ \A t \in {Train[k] : k \in 1..Len(Train)} : first_run.price_df[t] = price_df[t]

\* the solver is a function of its inputs: on the training slice of an
\* earlier call it answers what it answered then
SolverAnswers ==
    IF cfg.strategy # "mpt" \/ Cardinality(symbols) < 2 THEN {NoSolver(symbols)}
    ELSE IF SameTrainAsFirstRun
    THEN {out \in SolverOutcomes(symbols, cfg.max_weight) :
            OptimizeAt(price_df, Train, symbols, cfg, out) = first_run.solver_log[i]}
    ELSE SolverOutcomes(symbols, cfg.max_weight)

NotCalled == [ok |-> FALSE, w |-> << >>]

\* the skipped candidate is logged as an event without weights
SkipRebalance_LogsEvent ==
    /\ InLoop
    /\ SkipCond(Index, rebal_dates[i], cfg)
    /\ i' = i + 1
    /\ visited' = Append(visited, [date |-> rebal_dates[i], outcome |-> "skipped"])
    /\ solver_log' = Append(solver_log, NotCalled)
    /\ rebal_history' = Append(rebal_history,
           [date |-> rebal_dates[i], train_size |-> Len(Train), weights |-> << >>])
    /\ UNCHANGED <<price_df, symbols, cfg, pc, rebal_dates, weights_schedule,
                   attrs, first_run>>
    /\ UNCHANGED btvars

\* lines 122-141: `continue` before the try
SkipRebalance ==
    /\ InLoop
    /\ SkipCond(Index, rebal_dates[i], cfg)
    /\ i' = i + 1
    /\ visited' = Append(visited, [date |-> rebal_dates[i], outcome |-> "skipped"])
    /\ solver_log' = Append(solver_log, NotCalled)
    /\ UNCHANGED <<price_df, symbols, cfg, pc, rebal_dates, weights_schedule,
                   rebal_history, attrs, first_run>>
    /\ UNCHANGED btvars

\* lines 143-210: the weights are computed, logged and assigned
Rebalance ==
    /\ InLoop
    /\ ~SkipCond(Index, rebal_dates[i], cfg)
    /\ \E out \in SolverAnswers :
          LET r == OptimizeAt(price_df, Train, symbols, cfg, out)
              mask == ApplyMask(Index, rebal_dates, i)
          IN /\ r.ok
             /\ rebal_history' = Append(rebal_history,
                    [date |-> rebal_dates[i], train_size |-> Len(Train), weights |-> r.w])
             /\ weights_schedule' =
                    [t \in DOMAIN weights_schedule |->
                        IF t \in mask THEN r.w ELSE weights_schedule[t]]
             /\ solver_log' = Append(solver_log, r)
    /\ i' = i + 1
    /\ visited' = Append(visited, [date |-> rebal_dates[i], outcome |-> "rebalanced"])
    /\ UNCHANGED <<price_df, symbols, cfg, pc, rebal_dates, attrs, first_run>>
    /\ UNCHANGED btvars

\* the exception is not caught: it leaves rolling_optimize_weights
FailRebalance_Aborts ==
    /\ InLoop
    /\ ~SkipCond(Index, rebal_dates[i], cfg)
    /\ \E out \in SolverAnswers : ~OptimizeAt(price_df, Train, symbols, cfg, out).ok
    /\ pc' = "raised"
    /\ UNCHANGED <<price_df, symbols, cfg, rebal_dates, i, weights_schedule,
                   rebal_history, attrs, visited, solver_log, first_run>>
    /\ UNCHANGED btvars

\* lines 212-215: the optimisation raised; caught, `continue`
FailRebalance ==
    /\ InLoop
    /\ ~SkipCond(Index, rebal_dates[i], cfg)
    /\ \E out \in SolverAnswers :
          /\ ~OptimizeAt(price_df, Train, symbols, cfg, out).ok
          /\ solver_log' = Append(solver_log, OptimizeAt(price_df, Train, symbols, cfg, out))
    /\ i' = i + 1
    /\ visited' = Append(visited, [date |-> rebal_dates[i], outcome |-> "failed"])
    /\ UNCHANGED <<price_df, symbols, cfg, pc, rebal_dates, weights_schedule,
                   rebal_history, attrs, first_run>>
    /\ UNCHANGED btvars

\* weights_schedule.fillna(0.0)
fillna0(sched) ==
    [t \in DOMAIN sched |-> [a \in DOMAIN sched[t] |-> IF sched[t][a] = NaN THEN 0 ELSE sched[t][a]]]

\* lines 217-229: fill, tag and return
Finish ==
    /\ pc = "loop"
    /\ i > Len(rebal_dates)
    /\ weights_schedule' = fillna0(weights_schedule)
    /\ attrs' = [rebal_history |-> rebal_history, strategy |-> cfg.strategy,
                 oos_validated |-> TRUE]
    /\ pc' = "done"
    /\ UNCHANGED <<price_df, symbols, cfg, rebal_dates, i, rebal_history, visited,
                   solver_log, first_run>>
    /\ UNCHANGED btvars

Next == Start \/ SkipRebalance \/ Rebalance \/ FailRebalance \/ Finish

Spec == Init /\ [][Next]_vars


(***************************************************************************)
(* A second call of rolling_optimize_weights, with the same date index and *)
(* configuration, on a panel whose rows after a rebalance date differ.     *)
(***************************************************************************)
\* rolling and expanding windows, a window too short for min_train_days,
\* every strategy; the solver path on the longer period only
ConfigsLookAhead ==
    {c \in Configs :
        /\ c.strategy \in {"equal", "invvol", "mpt"}
        /\ c.max_weight = (3 * Scale) \div 5
        /\ <<c.min_train_days, c.lookback_days>> \in {<<0, 0>>, <<0, 3>>, <<4, 1>>}
        /\ c.strategy = "mpt" => c.rebalance_frequency = 3}

InitLookAhead ==
    /\ Init
    /\ cfg \in ConfigsLookAhead
    /\ Cardinality(symbols) = 2

\* the rows dated after cut are replaced by other prices
MutateTail ==
    /\ pc = "done"
    /\ ~first_run.present
    /\ \E k \in 1..Len(rebal_dates),
          shape \in {f \in [symbols -> Shapes \ {0}] : \A a, b \in symbols : a # b => f[a] # f[b]} :
          price_df' = [t \in DOMAIN price_df |->
                          IF t <= rebal_dates[k] THEN price_df[t]
                          ELSE [a \in symbols |-> PriceOf(shape[a], t) + 1]]
    /\ price_df' # price_df
    /\ first_run' = [present |-> TRUE, price_df |-> price_df,
                     weights_schedule |-> weights_schedule,
                     rebal_history |-> rebal_history, solver_log |-> solver_log,
                     cfg |-> cfg]
    /\ pc' = "start"
    /\ attrs' = << >>
    /\ UNCHANGED <<symbols, cfg, rebal_dates, i, weights_schedule, rebal_history,
                   visited, solver_log>>
    /\ UNCHANGED btvars

NextLookAhead == Next \/ MutateTail

SpecNoLookAhead == InitLookAhead /\ [][NextLookAhead]_vars

(***************************************************************************)
(* run_backtest.                                                           *)
(***************************************************************************)

\* compute_returns: simple returns of the sorted panel, first row dropped
compute_returns(df) == pct_change(df, IndexOf(df))

\* ret = compute_returns(price_df).reindex(price_df.index).fillna(0.0)
ReturnsOnIndex(df) ==
    LET idx == IndexOf(df)
        r == compute_returns(df)
    IN [k \in 1..Len(idx) |->
           IF k = 1 THEN [a \in DOMAIN df[idx[1]] |-> 0] ELSE r[k - 1]]

\* weights_schedule.reindex(price_df.index).ffill().fillna(0.0): row k is the
\* schedule's row at the last index date <= idx[k] that the schedule has
ReindexFfill(sched, cols, idx) ==
    [k \in 1..Len(idx) |->
        LET have == {j \in 1..k : idx[j] \in DOMAIN sched}
        IN IF have = {} THEN [a \in cols |-> 0]
           ELSE LET j == CHOOSE j \in have : \A j2 \in have : j2 <= j
                IN [a \in cols |-> IF sched[idx[j]][a] = NaN THEN 0 ELSE sched[idx[j]][a]]]

\* the row sums are taken over every column of the schedule, not over the
\* columns it shares with the returns
NormaliseRows_AllColumns(w, cols) ==
    [k \in DOMAIN w |->
        LET row_sum == SumOver(w[k], DOMAIN w[k])
        IN [a \in cols |-> IF row_sum = 0 THEN 0 ELSE (w[k][a] * Scale) \div row_sum]]

\* norm_weights = w.div(row_sums.replace(0.0, nan), axis=0).fillna(0.0)
NormaliseRows(w, cols) ==
    [k \in DOMAIN w |->
        LET row_sum == SumOver(w[k], cols)
        IN [a \in cols |-> IF row_sum = 0 THEN 0 ELSE (w[k][a] * Scale) \div row_sum]]

\* weight_changes = norm_weights.diff().abs().fillna(0.0), summed over the
\* assets of row k
Turnover(norm, cols, k) ==
    IF k = 1 THEN 0
    ELSE SumOver([a \in cols |-> Abs(norm[k][a] - norm[k - 1][a])], cols)

daily_cost_Unclipped(norm, cols, trading_cost_bps) ==
    [k \in DOMAIN norm |-> (Turnover(norm, cols, k) * trading_cost_bps) \div 10000]

\* daily_cost = (weight_changes.sum(axis=1) * (trading_cost_bps / 10000.0)).clip(lower=0.0)
daily_cost(norm, cols, trading_cost_bps) ==
    [k \in DOMAIN norm |->
        Max(0, (Turnover(norm, cols, k) * trading_cost_bps) \div 10000)]

shift1_SameDay(norm, cols, k) == norm[k]

\* norm_weights.shift(1).fillna(0.0), row k
shift1(norm, cols, k) ==
    IF k = 1 THEN [a \in cols |-> 0] ELSE norm[k - 1]

\* port_ret_gross = (norm_weights.shift(1).fillna(0.0) * ret).sum(axis=1)
port_ret_gross(norm, ret, cols) ==
    [k \in DOMAIN norm |->
        SumOver([a \in cols |-> shift1(norm, cols, k)[a] * ret[k][a]], cols) \div Scale]

port_ret_net_CostAdded(gross, cost, cash_rate_daily) ==
    [k \in DOMAIN gross |-> gross[k] + cost[k] + cash_rate_daily]

\* port_ret_net = port_ret_gross - daily_cost + cash_rate_daily
port_ret_net(gross, cost, cash_rate_daily) ==
    [k \in DOMAIN gross |-> gross[k] - cost[k] + cash_rate_daily]

RECURSIVE cumprod_Additive(_, _)
cumprod_Additive(net, acc) ==
    IF Len(acc) = Len(net) THEN acc
    ELSE cumprod_Additive(net,
             Append(acc, IF acc = << >> THEN Scale + net[1]
                         ELSE acc[Len(acc)] + net[Len(acc) + 1]))

\* (1.0 + port_ret_net).cumprod(), continued from the rows acc
RECURSIVE cumprod(_, _)
cumprod(net, acc) ==
    IF Len(acc) = Len(net) THEN acc
    ELSE cumprod(net,
             Append(acc, IF acc = << >> THEN Scale + net[1]
                         ELSE (acc[Len(acc)] * (Scale + net[Len(acc) + 1])) \div Scale))

\* float ** float raises OverflowError when |base| ^ (252 / n_days) exceeds
\* the largest double, that is when |base| >= 2 ^ (1024 * n_days / 252)
PowOverflows(base, n_days) ==
    /\ n_days <= 5
    /\ Abs(base) >= <<16720, 279555, 4674111, 78150542, 1306667206>>[n_days]

\* float ** float is complex for a negative base and a non-integer exponent
\* (1.0 / years is an integer exactly when n_days divides 252), and
\* float(complex) raises TypeError
PowIsComplex(base, n_days) == base < 0 /\ 252 % n_days # 0

\* cagr = (1.0 + total_return) ** (1.0 / years) - 1.0, kept as the base
\* 1 + total_return and the exponent 252 / n_days that determine it
CagrOf(equity_curve, n_days) ==
    [base |-> equity_curve[n_days], exponent |-> <<252, n_days>>]

\* np.sqrt(252)
Sqrt252 == ISqrt(252 * Scale * Scale)

\* vol = daily_returns.std(ddof=0) * np.sqrt(252)
VolOf(daily_returns) ==
    LET n == Len(daily_returns)
        mean == SumOver(daily_returns, 1..n) \div n
        dev == [k \in 1..n |-> (daily_returns[k] - mean) * (daily_returns[k] - mean)]
    IN (ISqrt(SumOver(dev, 1..n) \div n) * Sqrt252) \div Scale

\* the division by nan is left as it is: no `if np.isnan(sharpe)`
SharpeOf_KeepsNaN(daily_returns, vol) ==
    IF vol = 0 THEN NaN
    ELSE (((SumOver(daily_returns, 1..Len(daily_returns)) \div Len(daily_returns)) * 252) * Scale)
             \div vol

\* sharpe = (daily_returns.mean() * 252) / (vol if vol != 0 else nan), nan -> 0.0
SharpeOf(daily_returns, vol) ==
    IF vol = 0 THEN 0
    ELSE (((SumOver(daily_returns, 1..Len(daily_returns)) \div Len(daily_returns)) * 252) * Scale)
             \div vol

\* max_dd = (equity_curve / equity_curve.cummax() - 1.0).min()
MaxDDOf(equity_curve) ==
    LET n == Len(equity_curve)
        roll_max == [k \in 1..n |->
                        CHOOSE m \in {equity_curve[j] : j \in 1..k} :
                            \A j \in 1..k : equity_curve[j] <= m]
        drawdown == [k \in 1..n |-> (equity_curve[k] * Scale) \div roll_max[k] - Scale]
    IN CHOOSE d \in {drawdown[k] : k \in 1..n} : \A k \in 1..n : d <= drawdown[k]

\* compute_metrics for n_days >= 1: the metrics, or the exception of the power
compute_metrics(daily_returns, equity_curve) ==
    LET n_days == Len(daily_returns)
        base == equity_curve[n_days]
        vol == VolOf(daily_returns)
    IN IF PowOverflows(base, n_days) THEN [raised |-> "OverflowError"]
       ELSE IF PowIsComplex(base, n_days) THEN [raised |-> "TypeError"]
       ELSE [raised |-> "",
             CAGR |-> CagrOf(equity_curve, n_days),
             Vol |-> vol,
             Sharpe |-> SharpeOf(daily_returns, vol),
             MaxDD |-> MaxDDOf(equity_curve)]

\* rebalance_weights: target_weights on every period-end label that is a date
\* of the index, forward-filled, 0 before the first such date
rebalance_weights(target_weights, index, frequency) ==
    LET period_ends == get_rebalancing_dates(index, frequency)
        labels == {period_ends[k] : k \in 1..Len(period_ends)}
        dates == {index[k] : k \in 1..Len(index)}
    IN [t \in dates |->
           IF \E d \in labels \cap dates : d <= t
           THEN target_weights
           ELSE [a \in DOMAIN target_weights |-> 0]]

\* weights_schedule.columns (a frame without rows: the panel's columns)
ColumnsOf(sched, default) ==
    IF DOMAIN sched = {} THEN default
    ELSE DOMAIN sched[CHOOSE t \in DOMAIN sched : TRUE]

NoOverlap_Unchecked(common_cols) == FALSE

\* if len(common_cols) == 0: raise ValueError
NoOverlap(common_cols) == common_cols = {}

\* the schedules handed to run_backtest: a row on some dates of the panel,
\* each row fully invested in one asset or split between both without
\* summing to one; the dates before the first row are all cash
ScheduleRows == {<<Scale, 0>>, <<0, Scale>>, <<Scale, Scale>>}
Schedules(cal) ==
    UNION {[dates -> ScheduleRows] : dates \in SUBSET cal}
RowOf(pair) == [a \in {"A", "B"} |-> IF a = "A" THEN pair[1] ELSE pair[2]]

CostChoices == {0 - 100, 0, 100, 20000}
CashChoices == {0, 1}
BacktestArgs == [cash_rate_daily : CashChoices, trading_cost_bps : CostChoices]

\* panels of consecutive days from day 0 whose two assets move differently
BacktestPanels ==
    {PanelOf(0..n, {"A", "B"}, shape) :
        n \in Days, shape \in {s \in [{"A", "B"} -> Shapes] : s["A"] < s["B"]}}

\* schedules whose columns are not the panel's: one asset of the panel, an
\* asset the panel does not have, or one of each
OtherColumns == {{"A"}, {"Z"}, {"A", "Z"}}
OtherSchedules(cal) ==
    {[t \in dates |-> [a \in cols |-> Scale]] :
        dates \in (SUBSET cal) \ {{}}, cols \in OtherColumns}

InitBacktest ==
    /\ symbols = {"A", "B"}
    /\ price_df \in BacktestPanels
    /\ \/ \E s \in Schedules(DOMAIN price_df) :
              weights_schedule = [t \in DOMAIN s |-> RowOf(s[t])]
       \/ weights_schedule \in OtherSchedules(DOMAIN price_df)
    /\ bt_args \in BacktestArgs
    /\ pc = "bt_start"
    /\ cfg = << >>
    /\ rebal_dates = << >>
    /\ i = 1
    /\ rebal_history = << >>
    /\ attrs = << >>
    /\ visited = << >>
    /\ solver_log = << >>
    /\ first_run = NoRun
    /\ bt_locals = << >>
    /\ result = << >>
    /\ first_result = NoRun

\* run_backtest(price_df, weights_schedule=..., cash_rate_daily, trading_cost_bps):
\* a BacktestResult, or the exception raised on the way
RunBacktest ==
    /\ pc = "bt_start"
    /\ \E ret \in {ReturnsOnIndex(price_df)},
          schedule \in {IF "target_weights" \in DOMAIN bt_args
                        THEN rebalance_weights(bt_args.target_weights, Index,
                                               bt_args.rebalance_frequency)
                        ELSE weights_schedule} :
      \E w \in {ReindexFfill(schedule, ColumnsOf(schedule, symbols), Index)},
          common_cols \in {ColumnsOf(schedule, symbols) \cap DOMAIN price_df[Index[1]]} :
          IF NoOverlap(common_cols)
          THEN /\ pc' = "bt_raised"
               /\ bt_locals' = [raised |-> "ValueError"]
               /\ UNCHANGED result
          ELSE \E norm_weights \in {NormaliseRows(w, common_cols)} :
               \E cost \in {daily_cost(norm_weights, common_cols, bt_args.trading_cost_bps)},
                  gross \in {port_ret_gross(norm_weights, ret, common_cols)} :
               \E net \in {port_ret_net(gross, cost, bt_args.cash_rate_daily)} :
               \E equity_curve \in {cumprod(net, << >>)} :
               \E metrics \in {compute_metrics(net, equity_curve)} :
                  IF metrics.raised # ""
                  THEN /\ pc' = "bt_raised"
                       /\ bt_locals' = [raised |-> metrics.raised]
                       /\ UNCHANGED result
                  ELSE /\ pc' = "bt_done"
                       /\ bt_locals' = [ret |-> ret, daily_cost |-> cost,
                                        port_ret_gross |-> gross, port_ret_net |-> net]
                       /\ result' = [equity_curve |-> equity_curve,
                                     weights_history |-> norm_weights,
                                     metrics |-> [CAGR |-> metrics.CAGR, Vol |-> metrics.Vol,
                                                  Sharpe |-> metrics.Sharpe,
                                                  MaxDD |-> metrics.MaxDD]]
    /\ UNCHANGED <<price_df, symbols, cfg, rebal_dates, i, weights_schedule,
                   rebal_history, attrs, visited, solver_log, first_run,
                   bt_args, first_result>>

\* the caller runs the same backtest again with a trading cost at least as high
RerunWithCost ==
    /\ pc = "bt_done"
    /\ ~first_result.present
    /\ \E cost_b \in CostChoices :
          /\ cost_b >= bt_args.trading_cost_bps
          /\ bt_args' = [bt_args EXCEPT !.trading_cost_bps = cost_b]
    /\ first_result' = [present |-> TRUE, args |-> bt_args, result |-> result]
    /\ pc' = "bt_start"
    /\ bt_locals' = << >>
    /\ result' = << >>
    /\ UNCHANGED <<price_df, symbols, cfg, rebal_dates, i, weights_schedule,
                   rebal_history, attrs, visited, solver_log, first_run>>

SpecBacktest == InitBacktest /\ [][RunBacktest]_vars

\* run_backtest(price_df, target_weights=..., rebalance_frequency=...): no
\* schedule is passed; panels with gaps, so that a period's last calendar
\* day may be no trading date
TargetWeights ==
    {RowOf(<<Scale \div 2, Scale \div 2>>), RowOf(<<Scale, 0>>), RowOf(<<Scale, Scale>>)}
TargetArgs ==
    [cash_rate_daily : CashChoices, trading_cost_bps : CostChoices,
     target_weights : TargetWeights, rebalance_frequency : Frequencies]

InitTargetWeights ==
    /\ symbols = {"A", "B"}
    /\ price_df \in Panels(symbols)
    /\ weights_schedule = << >>
    /\ bt_args \in TargetArgs
    /\ pc = "bt_start"
    /\ cfg = << >>
    /\ rebal_dates = << >>
    /\ i = 1
    /\ rebal_history = << >>
    /\ attrs = << >>
    /\ visited = << >>
    /\ solver_log = << >>
    /\ first_run = NoRun
    /\ bt_locals = << >>
    /\ result = << >>
    /\ first_result = NoRun

SpecTargetWeights == InitTargetWeights /\ [][RunBacktest]_vars

\* two runs that differ only in the trading cost
InitCostComparison ==
    /\ InitBacktest
    /\ price_df \in {PanelOf(0..n, {"A", "B"}, [a \in {"A", "B"} |-> IF a = "A" THEN 1 ELSE 2]) :
                       n \in Days}

NextCostComparison == RunBacktest \/ RerunWithCost

SpecCostComparison == InitCostComparison /\ [][NextCostComparison]_vars

(***************************************************************************)
(* rolling_optimize_weights with the expanding window, then again on the   *)
(* same panel with a rolling window at least as long as the panel.         *)
(***************************************************************************)
ConfigsExpanding ==
    {c \in Configs :
        /\ c.lookback_days = 0
        /\ c.strategy \in {"equal", "invvol", "mpt"}
        /\ c.max_weight = (3 * Scale) \div 5}

InitWindowEquivalence ==
    /\ InitRollingWith(ConfigsExpanding)
    /\ bt_args = << >>
    /\ bt_locals = << >>
    /\ result = << >>
    /\ first_result = NoRun

\* the second call: lookback_days = the number of rows of the panel, or
\* more, or a window of one row
SwitchToRollingWindow ==
    /\ pc = "done"
    /\ ~first_run.present
    /\ \E lookback_days \in {1, Len(Index), Len(Index) + 1} :
          cfg' = [cfg EXCEPT !.lookback_days = lookback_days]
    /\ first_run' = [present |-> TRUE, price_df |-> price_df,
                     weights_schedule |-> weights_schedule,
                     rebal_history |-> rebal_history, solver_log |-> solver_log,
                     cfg |-> cfg]
    /\ pc' = "start"
    /\ UNCHANGED <<price_df, symbols, rebal_dates, i, weights_schedule, rebal_history,
                   attrs, visited, solver_log>>
    /\ UNCHANGED btvars

NextWindowEquivalence == Next \/ SwitchToRollingWindow

SpecWindowEquivalence == InitWindowEquivalence /\ [][NextWindowEquivalence]_vars

(***************************************************************************)
(* rolling_optimize_weights called with a number that is no window length: *)
(* lookback_days = 0 or negative.                                          *)
(***************************************************************************)
NonPositiveLookbacks == {0, 0 - 1, 0 - 3}

ConfigsNonPositiveLookback ==
    [rebalance_frequency : Frequencies, strategy : {"equal", "invvol", "mpt"},
     min_train_days : MinTrainChoices, lookback_days : NonPositiveLookbacks,
     max_weight : {(3 * Scale) \div 5}]

InitNonPositiveLookback ==
    /\ InitRollingWith(ConfigsNonPositiveLookback)
    /\ bt_args = << >>
    /\ bt_locals = << >>
    /\ result = << >>
    /\ first_result = NoRun

SpecNonPositiveLookback == InitNonPositiveLookback /\ [][Next]_vars

(***************************************************************************)
(* rolling_optimize_weights called with an odd min_train_days.             *)
(***************************************************************************)
OddMinTrainChoices == {1, 3, 5}

ConfigsOddMinTrain ==
    [rebalance_frequency : Frequencies, strategy : {"equal", "invvol", "mpt"},
     min_train_days : OddMinTrainChoices, lookback_days : LookbackChoices,
     max_weight : {(3 * Scale) \div 5}]

InitOddMinTrain ==
    /\ InitRollingWith(ConfigsOddMinTrain)
    /\ bt_args = << >>
    /\ bt_locals = << >>
    /\ result = << >>
    /\ first_result = NoRun

SpecOddMinTrain == InitOddMinTrain /\ [][Next]_vars

(***************************************************************************)
(* max_sharpe_long_only called on its own, with a diagonal covariance      *)
(* matrix: the variances of uncorrelated assets, some of them 0, or NaN    *)
(* (the covariance of a return frame without rows).                        *)
(***************************************************************************)
MuChoices == {0 - 2, 0, 1, 3}
VarChoices == {0, 1, 4, NaN}
MaxSharpeArgs ==
    [mu : [{"A", "B"} -> MuChoices], cov : [{"A", "B"} -> VarChoices],
     max_weight : MaxWeightChoices]

\* np.linalg.pinv(Sigma) @ mu for a diagonal Sigma: 1 / variance on the
\* diagonal, 0 for a zero variance; LinAlgError (SVD) for a matrix with NaN
PinvRaises(cov) == \E a \in DOMAIN cov : cov[a] = NaN
PinvTimesMu(mu, cov) ==
    [a \in DOMAIN mu |-> IF cov[a] = 0 THEN 0 ELSE (mu[a] * Scale) \div cov[a]]

\* what scipy's minimize does: it succeeds at a feasible point, or it does
\* not succeed (or throws) and tangency_unconstrained runs
SlsqpOutcomes(cols, max_weight) ==
    {o \in SolverOutcomes(cols, max_weight) : o.kind = "converged"}
        \cup {[kind |-> "no success", x |-> [a \in cols |-> 0]]}

InitMaxSharpe ==
    /\ symbols = {"A", "B"}
    /\ cfg \in MaxSharpeArgs
    /\ pc = "ms_start"
    /\ price_df = << >>
    /\ weights_schedule = << >>
    /\ rebal_dates = << >>
    /\ i = 1
    /\ rebal_history = << >>
    /\ attrs = << >>
    /\ visited = << >>
    /\ solver_log = << >>
    /\ first_run = NoRun
    /\ bt_args = << >>
    /\ bt_locals = << >>
    /\ result = << >>
    /\ first_result = NoRun

\* w = max_sharpe_long_only(mu, Sigma, max_weight)
CallMaxSharpe ==
    /\ pc = "ms_start"
    /\ \E o \in SlsqpOutcomes(symbols, cfg.max_weight) :
          LET out == IF o.kind = "converged" THEN o
                     ELSE IF PinvRaises(cfg.cov)
                     THEN [kind |-> "raise", x |-> o.x]
                     ELSE [kind |-> "fallback", x |-> PinvTimesMu(cfg.mu, cfg.cov)]
              r == max_sharpe_long_only(symbols, cfg.max_weight, out)
          IN /\ pc' = IF r.ok THEN "ms_done" ELSE "ms_raised"
             /\ result' = IF r.ok THEN [w |-> r.w, path |-> out.kind] ELSE result
    /\ UNCHANGED <<price_df, symbols, cfg, rebal_dates, i, weights_schedule,
                   rebal_history, attrs, visited, solver_log, first_run,
                   bt_args, bt_locals, first_result>>

SpecMaxSharpe == InitMaxSharpe /\ [][CallMaxSharpe]_vars

(***************************************************************************)
(* compute_returns on a frame given as the list of its rows in storage     *)
(* order, each row a date and a price: the index may be empty, unsorted or *)
(* hold a date twice.                                                      *)
(***************************************************************************)
RawFrames ==
    UNION {[1..n -> [date : Days, price : 1..2]] : n \in 0..MaxRows}

\* the index of the frame is strictly ascending
AscendingUnique(rows) ==
    \A k \in 1..(Len(rows) - 1) : rows[k].date < rows[k + 1].date

\* prices.sort_index(): the rows in ascending date order; the order of rows
\* with the same date is the sort's choice
sort_index(rows) ==
    {[k \in 1..Len(rows) |-> rows[perm[k]]] :
        perm \in {q \in [1..Len(rows) -> 1..Len(rows)] :
                    /\ \A j, k \in 1..Len(rows) : j # k => q[j] # q[k]
                    /\ \A k \in 1..(Len(rows) - 1) : rows[q[k]].date <= rows[q[k + 1]].date}}

\* .pct_change().dropna(how="all"): the first row is all NaN and goes
pct_change_rows(sorted) ==
    [k \in 1..(Len(sorted) - 1) |->
        [date |-> sorted[k + 1].date,
         ret |-> ((sorted[k + 1].price - sorted[k].price) * Scale) \div sorted[k].price]]

InitComputeReturns ==
    /\ symbols = {"A"}
    /\ price_df \in RawFrames
    /\ pc = "cr_start"
    /\ weights_schedule = << >>
    /\ cfg = << >>
    /\ rebal_dates = << >>
    /\ i = 1
    /\ rebal_history = << >>
    /\ attrs = << >>
    /\ visited = << >>
    /\ solver_log = << >>
    /\ first_run = NoRun
    /\ bt_args = << >>
    /\ bt_locals = << >>
    /\ result = << >>
    /\ first_result = NoRun

\* ret = compute_returns(price_df): no statement of it raises on a frame of
\* numbers, whatever its index
ComputeReturns ==
    /\ pc = "cr_start"
    /\ \E sorted \in sort_index(price_df) :
          result' = [returns |-> pct_change_rows(sorted)]
    /\ pc' = "cr_done"
    /\ UNCHANGED <<price_df, symbols, cfg, rebal_dates, i, weights_schedule,
                   rebal_history, attrs, visited, solver_log, first_run,
                   bt_args, bt_locals, first_result>>

SpecComputeReturns == InitComputeReturns /\ [][ComputeReturns]_vars

(***************************************************************************)
(* The pipeline: rolling_optimize_weights, then run_backtest on the        *)
(* schedule it returned, and the same again in the same process.           *)
(***************************************************************************)
\* a run without cost and cash rate, and one with both
PipelineArgs ==
    {a \in BacktestArgs : <<a.cash_rate_daily, a.trading_cost_bps>> \in {<<0, 0>>, <<1, 100>>}}

InitPipeline ==
    /\ InitRolling
    /\ cfg \in ConfigsLookAhead
    /\ Cardinality(symbols) = 2
    /\ bt_args \in PipelineArgs
    /\ bt_locals = << >>
    /\ result = << >>
    /\ first_result = NoRun

\* res = run_backtest(price_df, weights_schedule=weights_schedule, ...) on the
\* schedule rolling_optimize_weights returned
CallBacktest ==
    /\ pc = "done"
    /\ pc' = "bt_start"
    /\ UNCHANGED <<price_df, symbols, cfg, rebal_dates, i, weights_schedule,
                   rebal_history, attrs, visited, solver_log, first_run>>
    /\ UNCHANGED btvars

\* the caller keeps what the first run returned and calls
\* rolling_optimize_weights again with the same arguments; whatever the
\* first run left behind is still there
RunPipelineAgain ==
    /\ pc = "bt_done"
    /\ ~first_run.present
    /\ first_run' = [present |-> TRUE, price_df |-> price_df,
                     weights_schedule |-> weights_schedule,
                     rebal_history |-> rebal_history, solver_log |-> solver_log,
                     attrs |-> attrs, cfg |-> cfg]
    /\ first_result' = [present |-> TRUE, args |-> bt_args, result |-> result]
    /\ pc' = "start"
    /\ UNCHANGED <<price_df, symbols, cfg, rebal_dates, i, weights_schedule,
                   rebal_history, attrs, visited, solver_log,
                   bt_args, bt_locals, result>>

NextPipeline == Next \/ CallBacktest \/ RunBacktest \/ RunPipelineAgain

SpecPipeline == InitPipeline /\ [][NextPipeline]_vars

(***************************************************************************)
(* compare_in_sample_vs_out_of_sample: a static schedule optimised on the  *)
(* whole panel, then the walk-forward schedule of rolling_optimize_weights *)
(* on the same panel.                                                      *)
(***************************************************************************)
\* lines 254-274: the weights optimised on all of price_df; [ok, w], ok =
\* FALSE when max_sharpe_long_only raises (nothing catches it here)
InSampleWeights(df, syms, c, out) ==
    IF c.strategy = "invvol" THEN [ok |-> TRUE, w |-> inverse_vol_weights(df, IndexOf(df), 63)]
    ELSE IF c.strategy = "mpt" /\ Cardinality(syms) >= 2
    THEN max_sharpe_long_only(syms, c.max_weight, out)
    ELSE [ok |-> TRUE, w |-> equal_weight_weights(syms)]

\* the static schedule is tagged as walk-forward validated
InSampleAttrs_TaggedValidated == [oos_validated |-> TRUE]

\* line 282: weights_in_sample.attrs
InSampleAttrs == [oos_validated |-> FALSE]

\* one frequency and one cap: the tags do not depend on them
ConfigsCompare ==
    {c \in Configs : c.rebalance_frequency = 2 /\ c.max_weight = Scale \div 5}

InitCompare ==
    /\ InitRollingWith(ConfigsCompare)
    /\ bt_args = << >>
    /\ bt_locals = << >>
    /\ result = << >>
    /\ first_result = NoRun

\* lines 250-282: np.tile of the in-sample weights over every date of the
\* panel; the rolling call of line 286 follows (Start), unless this raised
ComputeInSample ==
    /\ pc = "start"
    /\ result = << >>
    /\ \E out \in (IF cfg.strategy = "mpt" /\ Cardinality(symbols) >= 2
                    THEN SolverOutcomes(symbols, cfg.max_weight)
                    ELSE {NoSolver(symbols)}) :
          \E r \in {InSampleWeights(price_df, symbols, cfg, out)} :
             IF r.ok
             THEN /\ result' = [weights_in_sample |-> [t \in DOMAIN price_df |-> r.w],
                                attrs |-> InSampleAttrs]
                  /\ pc' = pc
             ELSE /\ pc' = "raised"
                  /\ UNCHANGED result
    /\ UNCHANGED <<price_df, symbols, cfg, rebal_dates, i, weights_schedule,
                   rebal_history, attrs, visited, solver_log, first_run,
                   bt_args, bt_locals, first_result>>

\* rolling_optimize_weights is called on its own, or from
\* compare_in_sample_vs_out_of_sample after the in-sample schedule is built
NextCompare == ComputeInSample \/ Next

SpecCompare == InitCompare /\ [][NextCompare]_vars

(***************************************************************************)
(* map_scores_to_expected_returns_from_confidence.  Annual rates are in    *)
(* units of 1/Scale; daily rates, being about 252 times smaller, in units  *)
(* of 1/Fine.                                                              *)
(***************************************************************************)
Fine == 100 * Scale

\* (1 + x) * (1 + y) - 1 for rates x, y >= 0 in units of 1/Fine
Compound(x, y) == x + y + (x * y) \div Fine

RECURSIVE CompoundN(_, _)
\* (1 + r) ** n - 1, by squaring
CompoundN(r, n) ==
    IF n = 0 THEN 0
    ELSE IF n % 2 = 0 THEN Compound(CompoundN(r, n \div 2), CompoundN(r, n \div 2))
    ELSE Compound(CompoundN(r, n - 1), r)

RECURSIVE DailyIn(_, _, _)
\* the largest r in lo..hi with (1 + r) ** 252 <= 1 + ann, by bisection
DailyIn(ann, lo, hi) ==
    IF lo >= hi THEN lo
    ELSE LET mid == (lo + hi + 1) \div 2
         IN IF CompoundN(mid, 252) <= ann THEN DailyIn(ann, mid, hi)
            ELSE DailyIn(ann, lo, mid - 1)

\* mu_daily = (1.0 + ann) ** (1.0 / 252.0) - 1.0, for 0 <= ann < 0.28
DailyRate(ann) == DailyIn(ann * (Fine \div Scale), 0, Scale \div 10)

\* the ranks are ascending: the lowest confidence has rank 1
Rank2_Ascending(confidence, a) ==
    LET cols == DOMAIN confidence
    IN 2 * Cardinality({b \in cols : confidence[b] < confidence[a]})
         + 1 + Cardinality({b \in cols : confidence[b] = confidence[a]})

\* twice confidence.rank(method="average", ascending=False) at a: the
\* highest confidence has rank 1 and ties share the mean of their ranks
Rank2(confidence, a) ==
    LET cols == DOMAIN confidence
    IN 2 * Cardinality({b \in cols : confidence[b] > confidence[a]})
         + 1 + Cardinality({b \in cols : confidence[b] = confidence[a]})

\* confidence.max(), confidence.min()
MaxOf(f) == CHOOSE m \in {f[a] : a \in DOMAIN f} : \A a \in DOMAIN f : f[a] <= m
MinOf(f) == CHOOSE m \in {f[a] : a \in DOMAIN f} : \A a \in DOMAIN f : f[a] >= m

\* lines 103-108: the annual rate of every asset
AnnOf(confidence, ann_low, ann_high) ==
    IF MaxOf(confidence) = MinOf(confidence)
    THEN [a \in DOMAIN confidence |-> ann_low]
    ELSE LET ranks == [a \in DOMAIN confidence |-> Rank2(confidence, a)]
             span == MaxOf(ranks) - MinOf(ranks)
             scaled == [a \in DOMAIN confidence |->
                          ((MaxOf(ranks) - ranks[a]) * Scale) \div span]
         IN [a \in DOMAIN confidence |->
                ann_low + (scaled[a] * (ann_high - ann_low)) \div Scale]

\* map_scores_to_expected_returns_from_confidence: [ann, mu_daily]
map_scores_to_expected_returns_from_confidence(confidence, ann_low, ann_high) ==
    LET ann == AnnOf(confidence, ann_low, ann_high)
    IN [ann |-> ann, mu_daily |-> [a \in DOMAIN confidence |-> DailyRate(ann[a])]]

\* confidences in [0, 1]; the default band 0.02..0.15, 0..0.10, and a band
\* of one point
ConfidenceGrid == {0, Scale \div 4, Scale \div 2, Scale}
AssetNames == <<"A", "B", "C", "D", "E">>
ConfidenceVectors ==
    UNION {[{AssetNames[k] : k \in 1..n} -> ConfidenceGrid] :
              n \in 1..Min(MaxAssets, Len(AssetNames))}
AnnBands ==
    {[ann_low |-> Scale \div 50, ann_high |-> (3 * Scale) \div 20],
     [ann_low |-> 0, ann_high |-> Scale \div 10],
     [ann_low |-> Scale \div 20, ann_high |-> Scale \div 20]}

InitExpectedReturns ==
    /\ bt_args \in [confidence : ConfidenceVectors, band : AnnBands]
    /\ symbols = DOMAIN bt_args.confidence
    /\ pc = "mu_start"
    /\ cfg = << >>
    /\ price_df = << >>
    /\ weights_schedule = << >>
    /\ rebal_dates = << >>
    /\ i = 1
    /\ rebal_history = << >>
    /\ attrs = << >>
    /\ visited = << >>
    /\ solver_log = << >>
    /\ first_run = NoRun
    /\ bt_locals = << >>
    /\ result = << >>
    /\ first_result = NoRun

\* mu = map_scores_to_expected_returns_from_confidence(c, ann_low, ann_high)
CallExpectedReturns ==
    /\ pc = "mu_start"
    /\ result' = map_scores_to_expected_returns_from_confidence(
                     bt_args.confidence, bt_args.band.ann_low, bt_args.band.ann_high)
    /\ pc' = "mu_done"
    /\ UNCHANGED <<price_df, symbols, cfg, rebal_dates, i, weights_schedule,
                   rebal_history, attrs, visited, solver_log, first_run,
                   bt_args, bt_locals, first_result>>

SpecExpectedReturns == InitExpectedReturns /\ [][CallExpectedReturns]_vars

(***************************************************************************)
(* combine_confidence.                                                     *)
(***************************************************************************)
\* adapter scores, some of them outside [0, 1]
ScoreGrid == {0 - Scale \div 2, 0, Scale \div 2, 2 * Scale}
ScoreVectors == UNION {[cols -> ScoreGrid] : cols \in SUBSET {"A", "B"}}
\* (w_wassim, w_yugo): the default, an uneven split, and weights summing to 2
CombinationWeights ==
    {<<Scale \div 2, Scale \div 2>>, <<(3 * Scale) \div 10, (7 * Scale) \div 10>>,
     <<Scale, Scale>>}

\* clip(lower=0.0, upper=1.0)
Clip01(x) == Min(Max(x, 0), Scale)

\* c.reindex(idx).fillna(0.5) at a
ScoreOrNeutral(c, a) == IF a \in DOMAIN c THEN c[a] ELSE Scale \div 2

\* combine_confidence
combine_confidence(c_wassim, c_yugo, w_wassim, w_yugo) ==
    [a \in DOMAIN c_wassim \cup DOMAIN c_yugo |->
        Clip01((w_wassim * ScoreOrNeutral(c_wassim, a)
                  + w_yugo * ScoreOrNeutral(c_yugo, a)) \div Scale)]

InitCombine ==
    /\ bt_args \in [c_wassim : ScoreVectors, c_yugo : ScoreVectors, w : CombinationWeights]
    /\ symbols = DOMAIN bt_args.c_wassim \cup DOMAIN bt_args.c_yugo
    /\ pc = "cc_start"
    /\ cfg = << >>
    /\ price_df = << >>
    /\ weights_schedule = << >>
    /\ rebal_dates = << >>
    /\ i = 1
    /\ rebal_history = << >>
    /\ attrs = << >>
    /\ visited = << >>
    /\ solver_log = << >>
    /\ first_run = NoRun
    /\ bt_locals = << >>
    /\ result = << >>
    /\ first_result = NoRun

\* c = combine_confidence(c_wassim, c_yugo, w_wassim, w_yugo)
CallCombine ==
    /\ pc = "cc_start"
    /\ result' = [c |-> combine_confidence(bt_args.c_wassim, bt_args.c_yugo,
                                           bt_args.w[1], bt_args.w[2])]
    /\ pc' = "cc_done"
    /\ UNCHANGED <<price_df, symbols, cfg, rebal_dates, i, weights_schedule,
                   rebal_history, attrs, visited, solver_log, first_run,
                   bt_args, bt_locals, first_result>>

SpecCombine == InitCombine /\ [][CallCombine]_vars

(***************************************************************************)
(* analyze_weight_stability on the schedule rolling_optimize_weights       *)
(* returned.                                                               *)
(***************************************************************************)
\* daily_turnover = weights_schedule.diff().abs().sum(axis=1): 0 on the first
\* row (its diff is NaN); the events are the rows with daily_turnover > 0
analyze_weight_stability(sched, index) ==
    LET cols == DOMAIN sched[index[1]]
        daily_turnover ==
            [k \in 1..Len(index) |->
                IF k = 1 THEN 0
                ELSE SumOver([a \in cols |-> Abs(sched[index[k]][a] - sched[index[k - 1]][a])],
                             cols)]
        events == {k \in 1..Len(index) : daily_turnover[k] > 0}
    IN [max_turnover |-> CHOOSE m \in {daily_turnover[k] : k \in 1..Len(index)} :
                             \A k \in 1..Len(index) : daily_turnover[k] <= m,
        num_rebalancing_events |-> Cardinality(events),
        avg_days_between_rebalance |->
            (Len(index) * Scale) \div Max(Cardinality(events), 1)]

InitStability ==
    /\ InitRollingWith(ConfigsCompare)
    /\ bt_args = << >>
    /\ bt_locals = << >>
    /\ result = << >>
    /\ first_result = NoRun

\* stability = analyze_weight_stability(weights_schedule)
AnalyzeStability ==
    /\ pc = "done"
    /\ result' = analyze_weight_stability(weights_schedule, Index)
    /\ pc' = "analyzed"
    /\ UNCHANGED <<price_df, symbols, cfg, rebal_dates, i, weights_schedule,
                   rebal_history, attrs, visited, solver_log, first_run,
                   bt_args, bt_locals, first_result>>

NextStability == Next \/ AnalyzeStability

SpecStability == InitStability /\ [][NextStability]_vars

(***************************************************************************)
(* Properties of rolling_optimize_weights.                                 *)
(***************************************************************************)
Outcomes(kind) == {k \in 1..Len(visited) : visited[k].outcome = kind}
\* the audit entry of the candidate at position k
EventAt(k) ==
    CHOOSE e \in {rebal_history[j] : j \in 1..Len(rebal_history)} : e.date = visited[k].date
\* the last successful rebalance before position k
LastSuccessBefore(k) ==
    CHOOSE j \in Outcomes("rebalanced") :
        j < k /\ \A j2 \in Outcomes("rebalanced") : j2 < k => j2 <= j

\* C2: when the rebalance at d_i is skipped or fails after an earlier
\* success, every trading date of [d_i, d_(i+1)) (through the panel's end for
\* the last candidate) holds the weights of the most recent success.
C2_HoldOnSkipOrFailure ==
    pc = "done" =>
        \A k \in Outcomes("skipped") \cup Outcomes("failed") :
            (\E j \in Outcomes("rebalanced") : j < k) =>
                \A t \in ApplyMask(Index, rebal_dates, k) :
                    weights_schedule[t] = EventAt(LastSuccessBefore(k)).weights

\* C4: in the returned schedule every date earlier than the first
\* successful rebalance has weight 0 for every asset.
C4_CashBeforeFirstRebalance ==
    pc = "done" =>
        \A t \in DOMAIN weights_schedule :
            (\A k \in Outcomes("rebalanced") : t < visited[k].date) =>
                \A a \in symbols : weights_schedule[t][a] = 0

\* a date before the first success, at or after a candidate that failed
C4_Witness ==
    /\ pc = "done"
    /\ Outcomes("rebalanced") # {}
    /\ \E t \in DOMAIN weights_schedule :
          /\ \A k \in Outcomes("rebalanced") : t < visited[k].date
          /\ \E k \in Outcomes("failed") : visited[k].date <= t

\* rounding tolerance of a sum of n fixed-point quotients
Tolerance == Cardinality(symbols)

\* C5: every weight vector recorded in a RebalanceEvent covers exactly the
\* panel's assets, has no negative entry and sums to 1 (within rounding).
C5_RecordedWeightsValid ==
    \A j \in 1..Len(rebal_history) :
        LET w == rebal_history[j].weights
        IN /\ DOMAIN w = DOMAIN price_df[Index[1]]
           /\ \A a \in DOMAIN w : w[a] >= 0
           /\ Abs(SumOver(w, DOMAIN w) - Scale) <= Tolerance

\* an inverse-volatility event with unequal weights, and an mpt event
C5_Witness ==
    /\ pc = "done"
    /\ Len(rebal_history) >= 2
    /\ \/ /\ cfg.strategy = "invvol"
          /\ \E j \in 1..Len(rebal_history) :
                \E a, b \in symbols : rebal_history[j].weights[a] > rebal_history[j].weights[b]
       \/ cfg.strategy = "mpt" /\ Cardinality(symbols) = 2

\* C6: every weight of every produced vector is at most max_weight.
C6_PerAssetCap ==
    \A j \in 1..Len(rebal_history) :
        \A a \in symbols : rebal_history[j].weights[a] <= cfg.max_weight + Tolerance

\* the loop has a next step: the return, a skip, or an optimisation that
\* answers or raises
LoopCanStep ==
    \/ i > Len(rebal_dates)
    \/ SkipCond(Index, rebal_dates[i], cfg)
    \/ SolverAnswers # {}

\* C7: the loop handles every surviving candidate once, in date order,
\* whatever is skipped or fails; it always has a next step; and it returns a
\* schedule with a row for every panel date.  Only an empty candidate list
\* raises.
C7_Completion ==
    /\ pc = "raised" => Len(rebal_dates) = 0
    /\ pc \in {"loop", "done"} =>
          /\ Len(rebal_dates) > 0
          /\ Len(visited) = i - 1
          /\ Len(visited) <= Len(rebal_dates)
          /\ \A k \in 1..Len(visited) : visited[k].date = rebal_dates[k]
          /\ \A k \in 2..Len(visited) : visited[k - 1].date < visited[k].date
    /\ pc = "loop" => LoopCanStep
    /\ pc = "done" =>
          /\ Len(visited) = Len(rebal_dates)
          /\ DOMAIN weights_schedule = DOMAIN price_df

\* a completed run in which one candidate failed and another succeeded
C7_Witness ==
    /\ pc = "done"
    /\ Outcomes("failed") # {}
    /\ Outcomes("rebalanced") # {}


\* the rows of the two panels agree up to and including day d
AgreeThrough(d) ==
    \A t \in DOMAIN price_df : t <= d => price_df[t] = first_run.price_df[t]

\* C1: two panels with the same date index that agree on every row dated at
\* or before a rebalance date d_i get identical weights on every schedule
\* date at or before d_i.
C1_NoLookAhead ==
    (pc = "done" /\ first_run.present) =>
        \A k \in 1..Len(rebal_dates) :
            AgreeThrough(rebal_dates[k]) =>
                \A t \in DOMAIN weights_schedule :
                    t <= rebal_dates[k] =>
                        weights_schedule[t] = first_run.weights_schedule[t]

\* the second call has returned, a rebalance at or before d_i assigned
\* non-zero weights, and the two schedules differ after d_i
C1_Witness ==
    /\ pc = "done"
    /\ first_run.present
    /\ \E k \in 1..Len(rebal_dates) :
          /\ AgreeThrough(rebal_dates[k])
          /\ \E t \in DOMAIN weights_schedule :
                t <= rebal_dates[k] /\ \E a \in symbols : weights_schedule[t][a] > 0
          /\ \E t \in DOMAIN weights_schedule :
                t > rebal_dates[k] /\ weights_schedule[t] # first_run.weights_schedule[t]

(***************************************************************************)
(* Properties of run_backtest.                                             *)
(***************************************************************************)
Rows == 1..Len(Index)
\* the assets the schedule and the panel share
CommonCols == DOMAIN result.weights_history[1]
\* the simple return of asset a over the period ending at row k >= 2
RetAt(k, a) ==
    ((price_df[Index[k]][a] - price_df[Index[k - 1]][a]) * Scale)
        \div price_df[Index[k - 1]][a]
\* the dot product of the normalized weights of row j with the returns of row k
Dot(j, k) ==
    SumOver([a \in CommonCols |-> result.weights_history[j][a] * RetAt(k, a)], CommonCols)
        \div Scale
\* the rows up to and including the first date the schedule sets weights on
UpToFirstSet ==
    {k \in Rows : \A j \in 1..(k - 1) : Index[j] \notin DOMAIN weights_schedule}

\* C3: the gross return of every period after the first is the dot product of
\* the previous period's normalized weights with the period's asset returns;
\* the first period's gross return is 0, and so is the gross return of every
\* period up to and including the date the schedule first sets weights.
C3_OnePeriodLag ==
    pc = "bt_done" =>
        /\ bt_locals.port_ret_gross[1] = 0
        /\ \A k \in Rows \ {1} : bt_locals.port_ret_gross[k] = Dot(k - 1, k)
        /\ \A k \in UpToFirstSet : bt_locals.port_ret_gross[k] = 0

\* C3: weights are first set on a date after the first on which the assets
\* move, that date earns nothing, and a later date earns a return that differs
\* from what its own weights would have earned.
C3_Witness ==
    /\ pc = "bt_done"
    /\ \E k \in UpToFirstSet \ {1} :
          /\ Index[k] \in DOMAIN weights_schedule
          /\ Dot(k, k) # 0
          /\ bt_locals.port_ret_gross[k] = 0
    /\ \E k \in Rows \ {1} :
          /\ bt_locals.port_ret_gross[k] # 0
          /\ bt_locals.port_ret_gross[k] # Dot(k, k)

\* the net return of row k: gross - cost + cash rate
NetAt(k) ==
    bt_locals.port_ret_gross[k] - bt_locals.daily_cost[k] + bt_args.cash_rate_daily
\* every value of the equity curve after the first is the preceding value
\* times (1 + the period's net return)
Compounds ==
    \A k \in Rows \ {1} :
        result.equity_curve[k] = (result.equity_curve[k - 1] * (Scale + NetAt(k))) \div Scale

\* C8 as stated: the equity curve's first value is 1.0 and every later value
\* is the preceding value times (1 + net return), for any cash rate and cost.
C8_EquityStartsAtOne ==
    pc = "bt_done" => (result.equity_curve[1] = Scale /\ Compounds)

\* C8 as amended: the equity curve's first value is 1 + cash_rate_daily (1.0
\* when the cash rate is 0) and every later value is the preceding value
\* times (1 + net return), net = gross - cost + cash rate.
C8_EquityCompounds ==
    pc = "bt_done" =>
        /\ result.equity_curve[1] = Scale + bt_args.cash_rate_daily
        /\ Compounds

\* C8: a run with a cash rate and a trading cost, in which a period has a
\* gross return and a cost, and the curve moves after its first value.
C8_Witness ==
    /\ pc = "bt_done"
    /\ bt_args.cash_rate_daily # 0
    /\ result.equity_curve[1] # Scale
    /\ \E k \in Rows \ {1} :
          /\ bt_locals.port_ret_gross[k] # 0
          /\ bt_locals.daily_cost[k] > 0
          /\ result.equity_curve[k] # result.equity_curve[k - 1]

\* the sum over the assets of the absolute change of the normalized weight
\* from row k - 1 to row k
AbsChange(k) ==
    SumOver([a \in CommonCols |->
                Abs(result.weights_history[k][a] - result.weights_history[k - 1][a])],
            CommonCols)

\* C9: every period's cost is the summed absolute change of the normalized
\* weights since the previous period times cost_bps / 10000, floored at 0; the
\* first period has no cost; no cost is negative, whatever the sign of cost_bps.
C9_TurnoverCost ==
    pc = "bt_done" =>
        /\ bt_locals.daily_cost[1] = 0
        /\ \A k \in Rows \ {1} :
              bt_locals.daily_cost[k] =
                  Max(0, (AbsChange(k) * bt_args.trading_cost_bps) \div 10000)
        /\ \A k \in Rows : bt_locals.daily_cost[k] >= 0
        /\ bt_args.trading_cost_bps < 0 => \A k \in Rows : bt_locals.daily_cost[k] = 0

\* C9: a run with a negative cost_bps in which the weights change.
C9_Witness ==
    /\ pc = "bt_done"
    /\ bt_args.trading_cost_bps < 0
    /\ \E k \in Rows \ {1} : AbsChange(k) > 0 /\ bt_locals.daily_cost[k] = 0

\* the second of two runs that differ only in the trading cost has returned
SecondRunDone == pc = "bt_done" /\ first_result.present
\* at every date the later run's equity is at most the earlier run's
EquityNotAbove ==
    \A k \in Rows : result.equity_curve[k] <= first_result.result.equity_curve[k]

\* C10 as stated: with the panel and the schedule fixed and cost_a <= cost_b,
\* the equity curve under cost_b is at every date at most the one under cost_a.
C10_CostMonotone ==
    SecondRunDone => EquityNotAbove

\* C10 as amended: the same, provided no period's net return under cost_b is
\* below -100% (1 + net >= 0 in every period).
C10_CostMonotoneSolvent ==
    (SecondRunDone /\ \A k \in Rows : Scale + bt_locals.port_ret_net[k] >= 0)
        => EquityNotAbove

\* C10: two runs, the second with a strictly higher cost that never takes a
\* period's net return below -100%, ending strictly lower.
C10_Witness ==
    /\ SecondRunDone
    /\ bt_args.trading_cost_bps > first_result.args.trading_cost_bps
    /\ \A k \in Rows : Scale + bt_locals.port_ret_net[k] >= 0
    /\ result.equity_curve[Len(Index)] < first_result.result.equity_curve[Len(Index)]
    /\ result.equity_curve[Len(Index)] > 0

\* C14: called with lookback_days <= 0, rolling_optimize_weights fails with a
\* configuration error before it looks at any rebalance date: it never
\* enters its loop and never returns a schedule.
C14_NonPositiveLookbackFails ==
    cfg.lookback_days <= 0 => pc \in {"start", "raised"}

\* the rolling window is longer than the rows available at every rebalance
WindowExceedsHistory ==
    \A k \in 1..Len(rebal_dates) : cfg.lookback_days > TrainEndIdx(Index, rebal_dates[k])

\* C16: with the same panel and configuration, a rolling window longer than
\* the rows available at every rebalance returns the schedule and the audit
\* log of the expanding window, and raises no more than it.
C16_WindowEquivalence ==
    (first_run.present /\ first_run.cfg.lookback_days = 0 /\ cfg.lookback_days > 0) =>
        /\ pc # "raised"
        /\ (pc = "done" /\ WindowExceedsHistory) =>
              /\ weights_schedule = first_run.weights_schedule
              /\ rebal_history = first_run.rebal_history

\* C16: the rolling-window call has returned after an expanding-window call,
\* with a rebalance trained on two or more rows and one that was skipped or
\* failed.
C16_Witness ==
    /\ pc = "done"
    /\ first_run.present
    /\ first_run.cfg.lookback_days = 0
    /\ cfg.lookback_days > 0
    /\ WindowExceedsHistory
    /\ \E k \in 1..Len(rebal_history) :
          rebal_history[k].train_size >= 2 /\ \E a \in symbols : rebal_history[k].weights[a] > 0
    /\ Len(rebal_history) < Len(rebal_dates)

(***************************************************************************)
(* Properties of max_sharpe_long_only.                                     *)
(***************************************************************************)
\* C15: max_sharpe_long_only never raises, and what it returns is a weight
\* vector without a negative entry that sums to 1 (within the rounding of
\* one quotient per asset); without a solver success it is the clipped and
\* renormalized pinv(Sigma) * mu, equal weights when the clipped vector is 0.
C15_AlwaysValidWeights ==
    pc \in {"ms_done", "ms_raised"} =>
        /\ pc = "ms_done"
        /\ pc = "ms_done" =>
              /\ \A a \in symbols : result.w[a] # NaN /\ result.w[a] >= 0
              /\ Abs(SumOver(result.w, symbols) - Scale) <= Cardinality(symbols)
              /\ result.path = "fallback" =>
                    result.w = tangency_unconstrained(PinvTimesMu(cfg.mu, cfg.cov))

BacktestEnded == pc \in {"bt_done", "bt_raised"}
\* the schedule and the panel share no asset column
DisjointColumns == ColumnsOf(weights_schedule, symbols) \cap DOMAIN price_df[Index[1]] = {}

\* C12: when the weights schedule and the panel share no asset column,
\* run_backtest ends by raising the configuration error (ValueError) and the
\* caller gets no BacktestResult, complete or partial.
C12_NoOverlapRaises ==
    (BacktestEnded /\ DisjointColumns) =>
        /\ pc = "bt_raised"
        /\ bt_locals.raised = "ValueError"
        /\ result = << >>

\* C12: a schedule on an asset the panel does not have was passed and the
\* call raised.
C12_Witness ==
    /\ pc = "bt_raised"
    /\ DisjointColumns
    /\ DOMAIN weights_schedule # {}
    /\ bt_locals.raised = "ValueError"

(***************************************************************************)
(* Properties of compute_returns.                                          *)
(***************************************************************************)
\* C13: compute_returns returns a return panel only for a non-empty panel
\* with an ascending unique index; for an empty panel, a non-monotonic index
\* or a duplicate date it fails (DataError) instead.
C13_MalformedPanelFails ==
    pc = "cr_done" => (Len(price_df) > 0 /\ AscendingUnique(price_df))


\* ---- get_rebalancing_dates ----

\* d is the last date of the index within its period of the given length
LastTradingDateOfPeriod(d, index, frequency) ==
    /\ \E k \in 1..Len(index) : index[k] = d
    /\ \A k \in 1..Len(index) :
          index[k] \div frequency = d \div frequency => index[k] <= d

\* C17: every date get_rebalancing_dates returns is a member of the input
\* index and is the last trading date of its period; no rebalance date is a
\* non-trading day.  The walk-forward loop keeps a subsequence of what
\* get_rebalancing_dates returned, so its candidates are such dates too.
C17_RebalDatesAreTradingDates ==
    pc # "start" =>
        \A k \in 1..Len(rebal_dates) :
            LastTradingDateOfPeriod(rebal_dates[k], Index, cfg.rebalance_frequency)

\* ---- oos_validated ----

\* the rows of the panel a rebalance at date d may train on
RowsUpTo(d) == Cardinality({t \in DOMAIN price_df : t <= d})

\* the static schedule holds one weight vector, the same on every date
WholeHistory(sched) == \A s, t \in DOMAIN sched : sched[s] = sched[t]

\* C18: the schedule rolling_optimize_weights returns is tagged
\* oos_validated = True and every rebalance in its audit log trained on
\* rows dated at or before its date; the whole-history schedule of
\* compare_in_sample_vs_out_of_sample is tagged oos_validated = False; so
\* the two schedules of one comparison never carry the same tag.
C18_TaggedVariants ==
    /\ pc = "done" =>
          /\ attrs.oos_validated = TRUE
          /\ \A k \in 1..Len(attrs.rebal_history) :
                attrs.rebal_history[k].train_size <= RowsUpTo(attrs.rebal_history[k].date)
    /\ result # << >> =>
          /\ result.attrs.oos_validated = FALSE
          /\ WholeHistory(result.weights_in_sample)
          /\ pc = "done" => attrs.oos_validated # result.attrs.oos_validated

\* a comparison returned both schedules, the walk-forward one with a
\* rebalance that trained on fewer rows than the panel has
C18_Witness ==
    /\ pc = "done"
    /\ result # << >>
    /\ \E k \in 1..Len(attrs.rebal_history) :
          attrs.rebal_history[k].train_size < Len(Index)

\* ---- flat prices ----

\* no price of the panel ever changes
FlatPanel == \A s, t \in DOMAIN price_df : price_df[s] = price_df[t]

\* equal target weights, no trading cost, no cash rate
EqualWeightsNoCostNoCash ==
    /\ "target_weights" \in DOMAIN bt_args
    /\ bt_args.target_weights = equal_weight_weights(symbols)
    /\ bt_args.trading_cost_bps = 0
    /\ bt_args.cash_rate_daily = 0

\* C19: on a panel whose prices never change, run_backtest with equal
\* target weights, zero cost and zero cash rate returns (it does not
\* raise) an equity curve equal to 1.0 at every date, Sharpe 0 and MaxDD 0:
\* the zero volatility gives Sharpe 0, not NaN.
C19_FlatPanelIsFlat ==
    (pc # "bt_start" /\ FlatPanel /\ EqualWeightsNoCostNoCash) =>
        /\ pc = "bt_done"
        /\ \A k \in 1..Len(result.equity_curve) : result.equity_curve[k] = Scale
        /\ Len(result.equity_curve) = Len(Index)
        /\ result.metrics.Sharpe = 0
        /\ result.metrics.MaxDD = 0

\* the flat panel has several dates and the portfolio was invested
C19_Witness ==
    /\ pc = "bt_done"
    /\ FlatPanel
    /\ EqualWeightsNoCostNoCash
    /\ Len(Index) >= 3
    /\ \E k \in 1..Len(Index) : result.weights_history[k] = equal_weight_weights(symbols)

\* ---- expected returns from confidence ----

\* C20: when all confidences are equal (a single asset included) every asset
\* gets the expected return derived from ann_low; otherwise the assets of
\* the highest confidence get the one derived from ann_high, those of the
\* lowest the one derived from ann_low, and an asset of strictly higher
\* confidence than another never gets a lower expected return.
C20_ConfidenceToExpectedReturn ==
    pc = "mu_done" =>
        LET c == bt_args.confidence
            low == bt_args.band.ann_low
            high == bt_args.band.ann_high
            mu == result.mu_daily
        IN IF \A a, b \in DOMAIN c : c[a] = c[b]
           THEN \A a \in DOMAIN c : result.ann[a] = low /\ mu[a] = DailyRate(low)
           ELSE /\ \A a \in DOMAIN c :
                     /\ c[a] = MaxOf(c) => (result.ann[a] = high /\ mu[a] = DailyRate(high))
                     /\ c[a] = MinOf(c) => (result.ann[a] = low /\ mu[a] = DailyRate(low))
                /\ \A a, b \in DOMAIN c : c[a] > c[b] => mu[a] >= mu[b]

\* three assets or more, a tie at the top and a lower confidence below it,
\* on a band whose ends compound to different daily rates
C20_Witness ==
    /\ pc = "mu_done"
    /\ Cardinality(DOMAIN bt_args.confidence) >= 3
    /\ \E a, b, d \in DOMAIN bt_args.confidence :
          /\ a # b
          /\ bt_args.confidence[a] = bt_args.confidence[b]
          /\ bt_args.confidence[a] > bt_args.confidence[d]
          /\ result.mu_daily[a] > result.mu_daily[d]
          /\ result.mu_daily[d] > 0

\* ---- the schedule between candidates ----

\* the trading dates from candidate k up to, not including, candidate k + 1
\* (to the end of the panel for the last candidate)
IntervalOf(k) ==
    {t \in DOMAIN price_df :
        /\ t >= rebal_dates[k]
        /\ k < Len(rebal_dates) => t < rebal_dates[k + 1]}

\* C21: after a successful rebalance at candidate d_i the returned schedule
\* holds the weights computed at d_i on every trading date of
\* [d_i, d_(i+1)), or on every trading date from d_i on when d_i is the
\* last candidate; so the schedule is constant on the interval.
C21_WeightsOnInterval ==
    pc = "done" =>
        \A k \in 1..Len(visited) :
            visited[k].outcome = "rebalanced" =>
                \A t \in IntervalOf(k) :
                    weights_schedule[t] = EventAt(k).weights

\* two successful rebalances with different weights, the first holding over
\* an interval of two trading dates or more
C21_Witness ==
    /\ pc = "done"
    /\ \E k \in 1..(Len(visited) - 1) :
          /\ visited[k].outcome = "rebalanced"
          /\ visited[k + 1].outcome = "rebalanced"
          /\ Cardinality(IntervalOf(k)) >= 2
          /\ IntervalOf(k + 1) # {}
          /\ EventAt(k).weights # EventAt(k + 1).weights

\* ---- the audit log ----

\* the position among the candidates of the j-th successful rebalance
NthRebalanced(j) ==
    CHOOSE k \in Outcomes("rebalanced") :
        Cardinality({k2 \in Outcomes("rebalanced") : k2 <= k}) = j

\* C22: at every step the audit log holds exactly one event per successful
\* rebalance so far, in strictly increasing date order, each with the number
\* of rows of its training slice and the weights computed at its date; a
\* skipped or failed candidate has no entry; the log is a function of the
\* rebalances done, so no entry is removed or changed by a later step, and
\* the returned schedule carries this log.
C22_AuditLog ==
    /\ Len(rebal_history) = Cardinality(Outcomes("rebalanced"))
    /\ \A j \in 1..Len(rebal_history) :
          rebal_history[j] =
              [date |-> visited[NthRebalanced(j)].date,
               train_size |-> Len(TrainIndex(Index, visited[NthRebalanced(j)].date,
                                             cfg.lookback_days)),
               weights |-> solver_log[NthRebalanced(j)].w]
    /\ \A j, j2 \in 1..Len(rebal_history) :
          j < j2 => rebal_history[j].date < rebal_history[j2].date
    /\ pc = "done" => attrs.rebal_history = rebal_history

\* a returned schedule whose candidates were skipped, failed and rebalanced,
\* two of them rebalanced
C22_Witness ==
    /\ pc = "done"
    /\ Len(attrs.rebal_history) >= 2
    /\ Len(visited) > Len(attrs.rebal_history)

\* ---- the skip threshold ----

\* C23: a rebalance is skipped exactly when its training slice has fewer
\* than min_train_days / 2 rows (twice the rows is below min_train_days),
\* for odd and even min_train_days; so every logged event has a train_size
\* of at least min_train_days / 2, and in a rolling window at most
\* lookback_days.
C23_SkipThreshold ==
    /\ \A k \in 1..Len(visited) :
          visited[k].outcome = "skipped" <=>
              2 * Len(TrainIndex(Index, visited[k].date, cfg.lookback_days))
                  < cfg.min_train_days
    /\ \A j \in 1..Len(rebal_history) :
          /\ 2 * rebal_history[j].train_size >= cfg.min_train_days
          /\ cfg.lookback_days > 0 => rebal_history[j].train_size <= cfg.lookback_days

\* ---- the history filter ----

\* C24: a candidate at which fewer than min_train_days rows of the panel
\* are dated at or before it is discarded: no event is recorded for it,
\* whatever the spacing of the trading calendar.
C24_MinHistoryInRows ==
    \A j \in 1..Len(rebal_history) :
        RowsUpTo(rebal_history[j].date) >= cfg.min_train_days

\* ---- the schedule materialised from target_weights ----

\* the last trading date of the first period of the index
FirstRebalance ==
    CHOOSE d \in DOMAIN price_df :
        /\ d \div bt_args.rebalance_frequency = Index[1] \div bt_args.rebalance_frequency
        /\ \A t \in DOMAIN price_df :
              t \div bt_args.rebalance_frequency = d \div bt_args.rebalance_frequency => t <= d

\* C25: with target_weights and no schedule, the weights run_backtest holds
\* are 0 on every date before the first rebalance (the last trading date of
\* the first period) and the (row-normalised) target weights on that date
\* and on every later date, for any trading calendar.
C25_TargetWeightsFromFirstPeriodEnd ==
    (pc = "bt_done" /\ "target_weights" \in DOMAIN bt_args) =>
        \A k \in 1..Len(Index) :
            result.weights_history[k] =
                IF Index[k] < FirstRebalance
                THEN [a \in symbols |-> 0]
                ELSE NormaliseRows(<<bt_args.target_weights>>, symbols)[1]

\* ---- row normalisation ----

\* the schedule row in force at row k of the index, on the common columns
ScheduleRowAt(k) ==
    ReindexFfill(weights_schedule, ColumnsOf(weights_schedule, symbols), Index)[k]

\* C26: every row of weights_history sums to 1 or is all zeros: it is all
\* zeros exactly when the schedule row in force sums to 0 over the assets
\* the schedule shares with the panel, and sums to 1 over them otherwise.
C26_RowsSumToOneOrZero ==
    (pc = "bt_done" /\ weights_schedule # << >>) =>
        \A k \in 1..Len(Index) :
            IF SumOver(ScheduleRowAt(k), CommonCols) = 0
            THEN \A a \in CommonCols : result.weights_history[k][a] = 0
            ELSE SumOver(result.weights_history[k], CommonCols) = Scale

\* a schedule with a column the panel does not have, a row before its
\* first date and a row on which it is invested
C26_Witness ==
    /\ pc = "bt_done"
    /\ weights_schedule # << >>
    /\ ColumnsOf(weights_schedule, symbols) # CommonCols
    /\ \E k \in 1..Len(Index) : SumOver(result.weights_history[k], CommonCols) = 0
    /\ \E k \in 1..Len(Index) : SumOver(result.weights_history[k], CommonCols) = Scale

\* ---- combine_confidence ----

C28_EventCountIsLogLength ==
    pc = "analyzed" =>
        /\ result.num_rebalancing_events = Len(attrs.rebal_history)
        /\ attrs.rebal_history = rebal_history

\* ---- events and their effect ----

\* C29: every logged event took effect in the returned schedule: the
\* interval of its candidate holds a trading date, and the first trading
\* date on or after the event's date carries the event's weights; so no
\* event is logged for a candidate whose interval has no trading date or
\* that lies after the last date of the panel.
C29_EveryEventTakesEffect ==
    pc = "done" =>
        \A k \in Outcomes("rebalanced") :
            /\ IntervalOf(k) # {}
            /\ \A t \in IntervalOf(k) :
                  (\A t2 \in IntervalOf(k) : t <= t2) =>
                      weights_schedule[t] = EventAt(k).weights

\* ---- an unknown strategy ----

UnknownStrategy == cfg.strategy \notin {"equal", "invvol", "mpt"}

\* the returned schedule is 0 on every date, its log is empty, and it is
\* tagged as validated
EmptyValidatedSchedule ==
    /\ \A t \in DOMAIN weights_schedule : \A a \in symbols : weights_schedule[t][a] = 0
    /\ attrs.rebal_history = << >>
    /\ attrs.oos_validated = TRUE

\* C30 as stated: with a strategy outside {equal, invvol, mpt} the call
\* raises no error, every rebalance fails inside the per-date handler, and
\* the returned schedule is 0 on every date, with an empty audit log,
\* tagged oos_validated = True.
C30_UnknownStrategyNeverRaises ==
    UnknownStrategy =>
        /\ pc # "raised"
        /\ \A k \in 1..Len(visited) : visited[k].outcome = "failed"
        /\ pc = "done" => EmptyValidatedSchedule

\* C30, amended: with a strategy outside {equal, invvol, mpt} the only
\* error raised is the ValueError for no candidate surviving the history
\* filter; otherwise every candidate is skipped for insufficient data or
\* fails inside the per-date handler, and the returned schedule is 0 on
\* every date, with an empty audit log, tagged oos_validated = True.
C30_UnknownStrategyEmptySchedule ==
    UnknownStrategy =>
        /\ pc = "raised" => Len(rebal_dates) = 0
        /\ \A k \in 1..Len(visited) : visited[k].outcome \in {"failed", "skipped"}
        /\ pc = "done" => EmptyValidatedSchedule

\* an unknown strategy, two candidates or more, all of them failed, and the
\* schedule returned
C30_Witness ==
    /\ UnknownStrategy
    /\ pc = "done"
    /\ Len(visited) >= 2
    /\ \A k \in 1..Len(visited) : visited[k].outcome = "failed"

=============================================================================
